---- MODULE Spec2Model ----
(***************************************************************************)
(* Model of homework.py: the start-up token check, the polling loop of     *)
(* main(), the response validation, the status parsing and the             *)
(* deduplicating send_message decorator.                                   *)
(*                                                                         *)
(* Russian string literals of the source are transliterated to ASCII       *)
(* (the parser accepts ASCII strings only); distinct source literals stay  *)
(* distinct.  Python values are tagged records: [type |-> "dict", ...].    *)
(***************************************************************************)
EXTENDS Integers, Sequences, FiniteSets, TLC

\* ------------------------------------------------------------------ bounds
\* current_date values and the start-up clock are 1000, 2000, .. 1000*MaxDate
MaxDate == 2
\* longest homeworks list of a response
MaxHomeworks == 2

\* --------------------------------------------------------------- constants
RETRY_PERIOD == 600

ENDPOINT == "https://practicum.yandex.ru/api/user_api/homework_statuses/"

EXPECTED_TOKENS == <<"PRACTICUM_TOKEN", "TELEGRAM_TOKEN", "TELEGRAM_CHAT_ID">>

HOMEWORK_VERDICTS ==
    ("approved" :> "Rabota proverena: revyueru vsyo ponravilos. Ura!") @@
    ("reviewing" :> "Rabota vzyata na proverku revyuerom.") @@
    ("rejected" :> "Rabota proverena: u revyuera est zamechaniya.")

\* ----------------------------------------------------- environment values
\* os.getenv: None when the variable is absent, else its string value
PyNone == "<None>"
EnvValues == {PyNone, "", "secret"}

Dates == {1000 * i : i \in 1..MaxDate}

HomeworkNames == {"HW1", "HW2"}
StatusValues == {"approved", "reviewing", "rejected", "bogus"}

Dict(f) == [type |-> "dict", items |-> f]

\* submissions with both keys the program reads, with every name and status
CompleteHomeworks ==
    { Dict([k \in {"homework_name", "status"} |-> IF k = "status" THEN st ELSE n]) :
        n \in HomeworkNames, st \in StatusValues }

\* submissions with a further key (one the API documents, one it does not),
\* and submissions that lack a key
OtherHomeworks ==
    { Dict([k \in {"homework_name", "status", x} |->
              IF k = "status" THEN "approved" ELSE IF k = "homework_name" THEN "HW1" ELSE "bar"]) :
        x \in {"lesson_name", "foo"} } \cup
    { Dict([k \in {"homework_name"} |-> "HW1"]),
      Dict([k \in {"status"} |-> "approved"]),
      Dict(<<>>) }

HomeworkDicts == CompleteHomeworks \cup OtherHomeworks

\* what the first element of homeworks may be: a dict, or JSON of another type
FirstHomeworks ==
    HomeworkDicts \cup {[type |-> "int", items |-> <<>>], [type |-> "str", items |-> <<>>]}

\* an older submission, further down the list
OlderHomework ==
    [type |-> "dict", items |-> [k \in {"homework_name", "status"} |->
                                  IF k = "status" THEN "approved" ELSE "HW0"]]

RECURSIVE Older(_)
Older(n) == IF n = 0 THEN <<>> ELSE <<OlderHomework>> \o Older(n - 1)

HomeworkLists ==
    {<<>>} \cup { <<h>> \o Older(n) : h \in FirstHomeworks, n \in 0..(MaxHomeworks - 1) }

\* value under the key homeworks: a list, or JSON of another type
HomeworksValues ==
    { [type |-> "list", items |-> s] : s \in HomeworkLists } \cup {[type |-> "int", items |-> <<>>]}

\* a dict response: each of the two keys may be absent
DictBodies ==
    { [type |-> "dict", homeworks |-> <<h>>, current_date |-> <<d>>] :
        h \in HomeworksValues, d \in Dates } \cup
    { [type |-> "dict", homeworks |-> <<h>>, current_date |-> <<>>] : h \in HomeworksValues } \cup
    { [type |-> "dict", homeworks |-> <<>>, current_date |-> <<d>>] : d \in Dates } \cup
    { [type |-> "dict", homeworks |-> <<>>, current_date |-> <<>>] }

NoResponse == [type |-> "unset", homeworks |-> <<>>, current_date |-> <<>>]

Bodies == DictBodies \cup {[type |-> "list", homeworks |-> <<>>, current_date |-> <<>>]}

StatusCodes == {404}

\* what requests.get and response.json() may do
ApiOutcomes ==
    { [kind |-> "RequestException", code |-> 0, body |-> NoResponse] } \cup
    { [kind |-> "status", code |-> c, body |-> NoResponse] : c \in StatusCodes } \cup
    { [kind |-> "JSONDecodeError", code |-> 200, body |-> NoResponse] } \cup
    { [kind |-> "json", code |-> 200, body |-> b] : b \in Bodies }

SendOutcomes == {"ok", "TelegramError"}

\* ------------------------------------------------------------ dict access
HasKey(response, k) ==
    IF k = "homeworks" THEN response.homeworks # <<>> ELSE response.current_date # <<>>

Homeworks(response) == response.homeworks[1]

\* result of a call: a value, or an exception with its str()
Return(v) == [raised |-> FALSE, exc |-> "", error |-> "", value |-> v]
Raise(exc, text) == [raised |-> TRUE, exc |-> exc, error |-> text, value |-> ""]

\* str(KeyError(text)) is repr(text)
KeyErrorStr(text) == "'" \o text \o "'"

\* ------------------------------------------------------------ check_tokens
\* `not globals()[token]`: None and the empty string are falsy
Truthy(v) == v # PyNone /\ v # ""

\* a check for None alone: an empty value passes
MissingIsNone(env, token) == env[token] = PyNone

MissingIsFalsy(env, token) == ~Truthy(env[token])

missing_tokens(env) == SelectSeq(EXPECTED_TOKENS, LAMBDA token : MissingIsFalsy(env, token))

\* the message of check_tokens as its words: " ".join puts one name per word
ExitMessage(missing) ==
    <<"Otsutstvie obyazatelnyh peremennyh okruzheniya:">> \o missing

\* sys.exit(message) with a string: the message goes to stderr, exit status 1
check_tokens(env) ==
    IF missing_tokens(env) # <<>>
    THEN [exits |-> TRUE, message |-> ExitMessage(missing_tokens(env)), status |-> 1]
    ELSE [exits |-> FALSE, message |-> <<>>, status |-> 0]

\* ---------------------------------------------------------- get_api_answer
get_api_answer(timestamp, out) ==
    IF out.kind = "RequestException"
    THEN Raise("ConnectionError", "Oshibka pri popytke zaprosa k API: connection failed")
    ELSE IF out.code # 200
    THEN Raise("ValueError",
               "Endpoint " \o ENDPOINT \o " nedostupen. Kod otveta API: " \o ToString(out.code))
    ELSE IF out.kind = "JSONDecodeError"
    THEN Raise("JSONDecodeError", "Expecting value: line 1 column 1 (char 0)")
    ELSE Return(out.body)

\* ---------------------------------------------------------- check_response
TypeName(v) == "<class '" \o v.type \o "'>"

\* the submission fields the API documents
AllowList ==
    {"id", "status", "homework_name", "reviewer_comment", "date_updated", "lesson_name"}

\* a check_response that also rejects a first homework with a key outside AllowList
check_responseFirstKeys(response) ==
    IF response.type # "dict"
    THEN Raise("TypeError", "API vernul ne slovar, a " \o TypeName(response))
    ELSE IF ~HasKey(response, "homeworks")
    THEN Raise("KeyError", KeyErrorStr("otsutstvie klyucha homeworks v otvete API"))
    ELSE IF Homeworks(response).type # "list"
    THEN Raise("TypeError",
               "Pod klyuchom homeworks nahoditsya ne spisok,a " \o TypeName(Homeworks(response)))
    ELSE IF /\ Homeworks(response).items # <<>>
            /\ Homeworks(response).items[1].type = "dict"
            /\ ~(DOMAIN Homeworks(response).items[1].items \subseteq AllowList)
    THEN Raise("KeyError", KeyErrorStr("neozhidannyy klyuch v otvete API"))
    ELSE Return("")

check_response(response) ==
    IF response.type # "dict"
    THEN Raise("TypeError", "API vernul ne slovar, a " \o TypeName(response))
    ELSE IF ~HasKey(response, "homeworks")
    THEN Raise("KeyError", KeyErrorStr("otsutstvie klyucha homeworks v otvete API"))
    ELSE IF Homeworks(response).type # "list"
    THEN Raise("TypeError",
               "Pod klyuchom homeworks nahoditsya ne spisok,a " \o TypeName(Homeworks(response)))
    ELSE Return("")

\* ------------------------------------------------------------ parse_status
\* `key in homework`: membership in a dict's keys; a substring test on a str
\* (the str value of the model contains neither key); TypeError on an int
\* a parse_status that looks for status before homework_name
parse_statusStatusFirst(homework) ==
    IF homework.type = "int"
    THEN Raise("TypeError", "argument of type 'int' is not iterable")
    ELSE IF homework.type = "str" \/ "status" \notin DOMAIN homework.items
    THEN Raise("KeyError", KeyErrorStr("Otsutstvie klyucha status v otvete API"))
    ELSE IF "homework_name" \notin DOMAIN homework.items
    THEN Raise("KeyError", KeyErrorStr("Otsutstvie klyucha homework_name v otvete API"))
    ELSE IF homework.items["status"] \notin DOMAIN HOMEWORK_VERDICTS
    THEN Raise("ValueError", "Neozhidannyy status domashki: " \o homework.items["status"])
    ELSE Return("Izmenilsya status proverki raboty \"" \o homework.items["homework_name"]
                \o "\"." \o HOMEWORK_VERDICTS[homework.items["status"]])

parse_status(homework) ==
    IF homework.type = "int"
    THEN Raise("TypeError", "argument of type 'int' is not iterable")
    ELSE IF homework.type = "str" \/ "homework_name" \notin DOMAIN homework.items
    THEN Raise("KeyError", KeyErrorStr("Otsutstvie klyucha homework_name v otvete API"))
    ELSE IF "status" \notin DOMAIN homework.items
    THEN Raise("KeyError", KeyErrorStr("Otsutstvie klyucha status v otvete API"))
    ELSE IF homework.items["status"] \notin DOMAIN HOMEWORK_VERDICTS
    THEN Raise("ValueError", "Neozhidannyy status domashki: " \o homework.items["status"])
    ELSE Return("Izmenilsya status proverki raboty \"" \o homework.items["homework_name"]
                \o "\"." \o HOMEWORK_VERDICTS[homework.items["status"]])

\* ------------------------------------------------------------------- state
VARIABLES
    env,            \* PRACTICUM_TOKEN, TELEGRAM_TOKEN, TELEGRAM_CHAT_ID as read by os.getenv
    pc,             \* position of main()
    exit_status,    \* status of the process once it has exited, 0 while it runs
    exit_message,   \* words of the message sys.exit printed
    timestamp,      \* main's local timestamp
    response,       \* main's local response
    message,        \* main's local message
    error,          \* str(error) of the exception the except clause caught
    last_msg,       \* nonlocal last_msg of was_this_message_already_sent
    \* history of the run, read by the properties only
    from_date,      \* params['from_date'] of this iteration's request
    slept,          \* seconds slept since the latest request, -1 before the first one
    notified,       \* send_message calls of this iteration: text, and whether the text
                    \* was last_msg when the call was made
    lastCall,       \* text of the latest send_message call of the run
    sent,           \* bot.send_message calls of this iteration: text and outcome
    path,           \* how this iteration left the try statement
    raisedIn,       \* the call of this iteration that raised, "" if none did
    statusDelivered,\* status text delivered, while every status parsed since is the same
    prev,           \* the previous iteration: its path, the number of its sends, whether
                    \* its first send_message call found its text in last_msg, the status
                    \* text whose send raised, timestamp at its end, and its response when
                    \* it ran to line 174
    same            \* this iteration's response equals prev.response

vars == <<env, pc, exit_status, exit_message, timestamp, response, message, error,
          last_msg, from_date, slept, notified, lastCall, sent, path, raisedIn,
          statusDelivered, prev, same>>

progvars == <<env, exit_status, exit_message, timestamp, response, message, error, last_msg>>
histvars == <<from_date, slept, notified, lastCall, sent, path, raisedIn, statusDelivered, prev,
              same>>

NoPrev == [path |-> "none", raisedIn |-> "", nsent |-> 0, known |-> FALSE, failed |-> "",
           timestamp |-> 0, response |-> NoResponse]

Init ==
    /\ env \in [{EXPECTED_TOKENS[i] : i \in 1..Len(EXPECTED_TOKENS)} -> EnvValues]
    /\ pc = "start"
    /\ exit_status = 0
    /\ exit_message = <<>>
    /\ timestamp = 0
    /\ response = NoResponse
    /\ message = ""
    /\ error = ""
    /\ last_msg = ""
    /\ from_date = 0
    /\ slept = -1
    /\ notified = <<>>
    /\ lastCall = ""
    /\ sent = <<>>
    /\ path = "try"
    /\ raisedIn = ""
    /\ statusDelivered = ""
    /\ prev = NoPrev
    /\ same = FALSE

\* ------------------------------------------------------------ main: start
\* check_tokens() finds a token missing: sys.exit
StartupExit ==
    /\ pc = "start"
    /\ check_tokens(env).exits
    /\ pc' = "exited"
    /\ exit_status' = check_tokens(env).status
    /\ exit_message' = check_tokens(env).message
    /\ UNCHANGED <<env, timestamp, response, message, error, last_msg>>
    /\ UNCHANGED histvars

\* check_tokens() returns; the bot is built; timestamp = int(time.time())
Startup ==
    /\ pc = "start"
    /\ ~check_tokens(env).exits
    /\ \E now \in Dates : timestamp' = now
    /\ pc' = "fetch"
    /\ UNCHANGED <<env, exit_status, exit_message, response, message, error, last_msg>>
    /\ UNCHANGED histvars

\* ------------------------------------------------ main: the except clauses
\* where an exception raised in the try block goes: TelegramError is logged
\* (lines 175-176), any other Exception is reported (lines 177-181)
\* except clauses that name the exceptions the functions raise themselves
ExceptNamed(exc) ==
    IF exc = "TelegramError" THEN "finally"
    ELSE IF exc \in {"KeyError", "TypeError", "ValueError"} THEN "except"
    ELSE "crashed"

\* the status send wrapped in suppress: a failed send falls through to line 174
ExceptSwallowsSend(exc) == IF exc = "TelegramError" THEN "advance" ELSE "except"

ExceptClause(exc) == IF exc = "TelegramError" THEN "finally" ELSE "except"

\* with suppress(telegram.error.TelegramError): the send of the report
\* the report sent outside the suppress block
SuppressNothing(exc) == "crashed"

Suppress(exc) == IF exc = "TelegramError" THEN "finally" ELSE "crashed"

\* ---------------------------------------- was_this_message_already_sent
\* a wrapper without the comparison: f(bot, message) is called every time
wrapperAlways(last, msg, outcome) ==
    [last_msg |-> msg, called |-> TRUE, raised |-> outcome = "TelegramError"]

\* wrapper(bot, message) with last_msg = last: the new last_msg, whether
\* f(bot, message) was called, and whether that call raised
wrapper(last, msg, outcome) ==
    IF msg # last
    THEN [last_msg |-> msg, called |-> TRUE, raised |-> outcome = "TelegramError"]
    ELSE [last_msg |-> last, called |-> FALSE, raised |-> FALSE]

\* the history of one send_message(bot, msg) call
Notified(msg, outcome, w) ==
    /\ notified' = Append(notified, [text |-> msg, known |-> msg = last_msg])
    /\ lastCall' = msg
    /\ sent' = IF w.called THEN Append(sent, [text |-> msg, outcome |-> outcome]) ELSE sent

\* ------------------------------------------------------- main: the loop
\* line 166: response = get_api_answer(timestamp - RETRY_PERIOD)
Fetch ==
    /\ pc = "fetch"
    /\ \E out \in ApiOutcomes :
         LET r == get_api_answer(timestamp - RETRY_PERIOD, out) IN
         /\ from_date' = timestamp - RETRY_PERIOD
         /\ slept' = 0
         /\ IF r.raised
            THEN /\ pc' = ExceptClause(r.exc)
                 /\ error' = r.error
                 /\ raisedIn' = "get_api_answer"
                 /\ path' = "except"
                 /\ same' = FALSE
                 /\ UNCHANGED response
            ELSE /\ pc' = "check"
                 /\ response' = r.value
                 /\ same' = (r.value = prev.response)
                 /\ UNCHANGED <<error, raisedIn, path>>
    /\ UNCHANGED <<env, exit_status, exit_message, timestamp, message, last_msg>>
    /\ UNCHANGED <<notified, lastCall, sent, statusDelivered, prev>>

\* a `continue` that leaves the try statement without running its finally clause
ContinueSkipsFinally == "fetch"

\* lines 171, 182-183: `continue` inside try runs the finally clause first
Continue == "finally"

\* lines 167-171: check_response(response); `continue` when homeworks is empty
Check ==
    /\ pc = "check"
    /\ LET r == check_response(response) IN
         IF r.raised
         THEN /\ pc' = ExceptClause(r.exc)
              /\ error' = r.error
              /\ raisedIn' = "check_response"
              /\ path' = "except"
         ELSE IF Homeworks(response).items = <<>>
         THEN /\ pc' = Continue
              /\ path' = "continue"
              /\ UNCHANGED <<error, raisedIn>>
         ELSE /\ pc' = "parse"
              /\ UNCHANGED <<error, raisedIn, path>>
    /\ UNCHANGED <<env, exit_status, exit_message, timestamp, response, message, last_msg>>
    /\ UNCHANGED <<from_date, slept, notified, lastCall, sent, statusDelivered, prev, same>>

\* line 172: message = parse_status(response['homeworks'][0])
Parse ==
    /\ pc = "parse"
    /\ LET r == parse_status(Homeworks(response).items[1]) IN
         IF r.raised
         THEN /\ pc' = ExceptClause(r.exc)
              /\ error' = r.error
              /\ raisedIn' = "parse_status"
              /\ path' = "except"
              /\ UNCHANGED <<message, statusDelivered>>
         ELSE /\ pc' = "send"
              /\ message' = r.value
              /\ statusDelivered' = IF r.value = statusDelivered THEN statusDelivered ELSE ""
              /\ UNCHANGED <<error, raisedIn, path>>
    /\ UNCHANGED <<env, exit_status, exit_message, timestamp, response, last_msg>>
    /\ UNCHANGED <<from_date, slept, notified, lastCall, sent, prev, same>>

\* line 173: send_message(bot, message)
SendStatus ==
    /\ pc = "send"
    /\ \E outcome \in SendOutcomes :
         LET w == wrapper(last_msg, message, outcome) IN
         /\ last_msg' = w.last_msg
         /\ Notified(message, outcome, w)
         /\ statusDelivered' = IF w.called /\ ~w.raised THEN message ELSE statusDelivered
         /\ IF w.raised
            THEN /\ pc' = ExceptClause("TelegramError")
                 /\ raisedIn' = "send_message"
                 /\ path' = "telegram"
            ELSE /\ pc' = "advance"
                 /\ UNCHANGED <<raisedIn, path>>
    /\ UNCHANGED <<env, exit_status, exit_message, timestamp, response, message, error>>
    /\ UNCHANGED <<from_date, slept, prev, same>>

\* line 174: timestamp = response['current_date']
Advance ==
    /\ pc = "advance"
    /\ IF HasKey(response, "current_date")
       THEN /\ timestamp' = response.current_date[1]
            /\ pc' = "finally"
            /\ path' = "else"
            /\ UNCHANGED <<error, raisedIn>>
       ELSE /\ pc' = ExceptClause("KeyError")
            /\ error' = KeyErrorStr("current_date")
            /\ raisedIn' = "current_date"
            /\ path' = "except"
            /\ UNCHANGED timestamp
    /\ UNCHANGED <<env, exit_status, exit_message, response, message, last_msg>>
    /\ UNCHANGED <<from_date, slept, notified, lastCall, sent, statusDelivered, prev, same>>

\* line 178
error_msg(err) == "Sboy v rabote programmy: " \o err

\* lines 177-181: the report of the error, itself sent through send_message;
\* the name error is unbound when the clause ends
HandleError ==
    /\ pc = "except"
    /\ \E outcome \in SendOutcomes :
         LET w == wrapper(last_msg, error_msg(error), outcome) IN
         /\ last_msg' = w.last_msg
         /\ Notified(error_msg(error), outcome, w)
         /\ pc' = IF w.raised THEN Suppress("TelegramError") ELSE "finally"
    /\ error' = ""
    /\ UNCHANGED <<env, exit_status, exit_message, timestamp, response, message>>
    /\ UNCHANGED <<from_date, slept, path, raisedIn, statusDelivered, prev, same>>

\* line 183: time.sleep(RETRY_PERIOD), then the next iteration.  Every iteration
\* assigns response and message before it reads them, so their old values are
\* dropped here rather than carried to the next assignment.
Sleep ==
    /\ pc = "finally"
    /\ pc' = "fetch"
    /\ prev' = [path |-> path, raisedIn |-> raisedIn, nsent |-> Len(sent),
                known |-> notified # <<>> /\ notified[1].known,
                failed |-> IF path = "telegram" THEN message ELSE "",
                timestamp |-> timestamp,
                response |-> IF path = "else" THEN response ELSE NoResponse]
    /\ response' = NoResponse
    /\ message' = ""
    /\ from_date' = 0
    /\ slept' = slept + RETRY_PERIOD
    /\ notified' = <<>>
    /\ sent' = <<>>
    /\ path' = "try"
    /\ raisedIn' = ""
    /\ same' = FALSE
    /\ UNCHANGED <<env, exit_status, exit_message, timestamp, error, last_msg>>
    /\ UNCHANGED <<lastCall, statusDelivered>>

Next ==
    \/ StartupExit
    \/ Startup
    \/ Fetch
    \/ Check
    \/ Parse
    \/ SendStatus
    \/ Advance
    \/ HandleError
    \/ Sleep

Spec == Init /\ [][Next]_vars

\* the interpreter runs the next statement; the blocking calls return
FairSpec == Spec /\ WF_vars(Next)

TypeOK ==
    /\ pc \in {"start", "exited", "fetch", "check", "parse", "send", "advance", "except",
               "finally", "crashed"}
    /\ path \in {"try", "continue", "else", "telegram", "except"}
    /\ Len(sent) <= 2
    /\ Len(notified) <= 2

\* ================================================================ claims
Tokens == {EXPECTED_TOKENS[i] : i \in 1..Len(EXPECTED_TOKENS)}

\* the tokens that are absent or empty
AbsentOrEmpty == {t \in Tokens : env[t] = PyNone \/ env[t] = ""}

\* the names the exit message lists after its first word
NamedInExit == {exit_message[i] : i \in 2..Len(exit_message)}

\* no request was made and no iteration has started
NeverFetched ==
    /\ from_date = 0
    /\ slept = -1
    /\ response = NoResponse
    /\ prev = NoPrev
    /\ notified = <<>>
    /\ path = "try"

\* C1: when a token is absent or empty main exits with a non-zero status before
\* the first request, never enters the loop afterwards, and the exit message names
\* exactly the missing tokens, each once; when all three are set the loop is entered.
C1_StartupCheck ==
    /\ [](pc # "start" => (pc = "exited" <=> AbsentOrEmpty # {}))
    /\ [](pc = "exited" =>
            /\ exit_status # 0
            /\ NeverFetched
            /\ NamedInExit = AbsentOrEmpty
            /\ Len(exit_message) = 1 + Cardinality(AbsentOrEmpty))
    /\ [][pc = "exited" => pc' = "exited"]_vars

C1_Witness ==
    /\ pc = "exited"
    /\ env["PRACTICUM_TOKEN"] = PyNone
    /\ env["TELEGRAM_TOKEN"] = ""
    /\ env["TELEGRAM_CHAT_ID"] = "secret"
    /\ exit_message[2] = "PRACTICUM_TOKEN"
    /\ exit_message[3] = "TELEGRAM_TOKEN"

\* an exception of get_api_answer, check_response or parse_status is pending or handled
RaisedInCycle == raisedIn \in {"get_api_answer", "check_response", "parse_status"}

\* the state right after a request
Fetched == pc = "check" \/ (pc \in {"except", "crashed"} /\ raisedIn = "get_api_answer")

\* C2: under FairSpec, an exception raised by the fetch (connection failure, non-200
\* status, unparsable body), by the validation or by the status parsing never ends the
\* loop: the iteration reaches its sleep, and after the sleep another request is made.
C2_ErrorsNeverStopLoop ==
    /\ (RaisedInCycle ~> (RaisedInCycle /\ pc = "finally"))
    /\ ((RaisedInCycle /\ pc = "finally") ~> (pc = "fetch"))
    /\ ((pc = "fetch") ~> (Fetched /\ pc # "crashed"))

C2_Witness ==
    /\ pc = "finally"
    /\ raisedIn = "get_api_answer"
    /\ prev.raisedIn = "parse_status"

\* the latest bot.send_message call of this iteration raised
SendRaised == sent # <<>> /\ sent[Len(sent)].outcome = "TelegramError"

\* C3: under FairSpec, a bot.send_message call that raises TelegramError, for the
\* status text or for the error report, takes the iteration straight to its sleep,
\* and after the sleep another request is made.
C3_SendFailureSwallowed ==
    /\ [][(Len(sent') > Len(sent) /\ sent'[Len(sent')].outcome = "TelegramError")
            => pc' = "finally"]_vars
    /\ ((SendRaised /\ pc = "finally") ~> (pc = "fetch"))
    /\ ((pc = "fetch") ~> (Fetched /\ pc # "crashed"))
    /\ [](SendRaised => pc \in {"finally"})

\* the send of the status text raised in the previous iteration, the loop went on,
\* and the send of this iteration's error report raised too
C3_Witness ==
    /\ pc = "finally"
    /\ path = "except"
    /\ SendRaised
    /\ prev.path = "telegram"

\* a step that makes a send_message call, and the text of that call
NotifyStep == Len(notified') = Len(notified) + 1
CallText == notified'[Len(notified')].text

\* a step in which bot.send_message is called and returns
DeliveryStep == Len(sent') = Len(sent) + 1 /\ sent'[Len(sent')].outcome = "ok"

\* C4: a send_message call whose text equals last_msg calls bot.send_message zero
\* times and changes neither last_msg nor timestamp; the second of two consecutive
\* calls with the same text calls it zero times; a call whose text differs from
\* last_msg calls it exactly once, with that text.
C4_Dedup ==
    [][NotifyStep =>
        /\ (CallText = last_msg =>
              sent' = sent /\ last_msg' = last_msg /\ timestamp' = timestamp)
        /\ (CallText = lastCall => sent' = sent)
        /\ (CallText # last_msg =>
              Len(sent') = Len(sent) + 1 /\ sent'[Len(sent')].text = CallText)]_vars

\* the status text of this iteration was found in last_msg: nothing was sent
C4_Witness ==
    /\ pc = "advance"
    /\ notified # <<>>
    /\ notified[1].known
    /\ sent = <<>>
    /\ last_msg = message

\* C5: last_msg changes only to the text of a bot.send_message call that returned in
\* that step, and every such call leaves its text in last_msg; so last_msg is "" or
\* the text of the latest send that succeeded, and a send that raises leaves it alone.
C5_LastMsgIsLastDelivered ==
    [][/\ (last_msg' # last_msg =>
             DeliveryStep /\ sent'[Len(sent')].text = last_msg')
       /\ (DeliveryStep => last_msg' = sent'[Len(sent')].text)]_vars

\* C6: when the send of status text T raised in the previous iteration and this
\* iteration passes the same T to send_message, bot.send_message is called for T.
C6_FailedStatusRetried ==
    (prev.failed # "" /\ notified # <<>> /\ notified[1].text = prev.failed)
        => (sent # <<>> /\ sent[1].text = prev.failed)

\* two consecutive iterations ran to line 174 on the same response
TwoCleanSame ==
    /\ pc = "finally"
    /\ path = "else"
    /\ prev.path = "else"
    /\ same

\* C7 as stated: the first of the two iterations sends once, the second sends
\* nothing, and timestamp is the response's current_date at the end of each.
C7_Original ==
    TwoCleanSame =>
        /\ prev.nsent = 1
        /\ Len(sent) = 0
        /\ prev.timestamp = response.current_date[1]
        /\ timestamp = response.current_date[1]

\* C7 amended: the second iteration sends nothing; the first sends once when its
\* text is not last_msg at its start and nothing when it is; timestamp is the
\* response's current_date at the end of each.
C7_EndToEndDedup ==
    TwoCleanSame =>
        /\ prev.nsent = (IF prev.known THEN 0 ELSE 1)
        /\ Len(sent) = 0
        /\ prev.timestamp = response.current_date[1]
        /\ timestamp = response.current_date[1]

C7_Witness ==
    /\ TwoCleanSame
    /\ ~prev.known
    /\ prev.nsent = 1
    /\ notified # <<>>
    /\ notified[1].known

\* C8: a status text is delivered only when it differs from the status text
\* delivered last, unless a different status text was parsed in between.
C8_StatusSentOnlyOnChange ==
    [][(pc = "send" /\ DeliveryStep) => statusDelivered # message]_vars

\* the status text of this iteration was passed to send_message
StatusNotified == notified # <<>> /\ message # "" /\ notified[1].text = message

\* a dict response without homeworks or without current_date
MissingRequiredKey ==
    /\ response.type = "dict"
    /\ ~HasKey(response, "homeworks") \/ ~HasKey(response, "current_date")

\* C9: once check_response has run on a dict response that lacks homeworks or
\* current_date, it has raised KeyError, so the iteration failed in check_response
\* and its status text is never passed to send_message.
C9_MissingKeyRejected ==
    (MissingRequiredKey /\ pc # "check") =>
        /\ raisedIn = "check_response"
        /\ check_response(response).exc = "KeyError"
        /\ ~StatusNotified

\* a response that has both keys and a non-empty homeworks list
HasFirstHomework ==
    /\ response.type = "dict"
    /\ HasKey(response, "homeworks")
    /\ HasKey(response, "current_date")
    /\ Homeworks(response).type = "list"
    /\ Homeworks(response).items # <<>>

FirstHomework == Homeworks(response).items[1]

Recognized(h) == h.type = "dict" /\ DOMAIN h.items \subseteq AllowList

Parsable(h) ==
    /\ h.type = "dict"
    /\ {"homework_name", "status"} \subseteq DOMAIN h.items
    /\ h.items["status"] \in {"approved", "reviewing", "rejected"}

VerdictText(st) ==
    CASE st = "approved" -> "Rabota proverena: revyueru vsyo ponravilos. Ura!"
      [] st = "reviewing" -> "Rabota vzyata na proverku revyuerom."
      [] st = "rejected" -> "Rabota proverena: u revyuera est zamechaniya."

\* what line 172 must leave in message, or in error, for the dict h
ParseOutcome(h) ==
    IF "homework_name" \notin DOMAIN h.items
    THEN [exc |-> "KeyError", text |-> "'Otsutstvie klyucha homework_name v otvete API'"]
    ELSE IF "status" \notin DOMAIN h.items
    THEN [exc |-> "KeyError", text |-> "'Otsutstvie klyucha status v otvete API'"]
    ELSE IF h.items["status"] \notin {"approved", "reviewing", "rejected"}
    THEN [exc |-> "ValueError", text |-> "Neozhidannyy status domashki: " \o h.items["status"]]
    ELSE [exc |-> "",
          text |-> "Izmenilsya status proverki raboty \"" \o h.items["homework_name"] \o "\"."
                   \o VerdictText(h.items["status"])]

\* C11: for a dict submission, line 172 leaves in message exactly the template with
\* the name and the verdict text when homework_name is present and status is one of
\* approved, reviewing, rejected; else it raises KeyError naming homework_name,
\* else KeyError naming status, else ValueError naming the status value; and the
\* step changes neither last_msg nor timestamp, whatever their values.
C11_ParseStatusPure ==
    [][(pc = "parse" /\ FirstHomework.type = "dict") =>
        /\ parse_status(FirstHomework).exc = ParseOutcome(FirstHomework).exc
        /\ IF ParseOutcome(FirstHomework).exc = ""
           THEN pc' = "send" /\ message' = ParseOutcome(FirstHomework).text /\ error' = error
           ELSE pc' = "except" /\ error' = ParseOutcome(FirstHomework).text
                /\ message' = message
        /\ last_msg' = last_msg
        /\ timestamp' = timestamp]_vars

\* a submission with neither key: the error names homework_name
C11_Witness ==
    /\ pc = "except"
    /\ raisedIn = "parse_status"
    /\ FirstHomework = Dict(<<>>)
    /\ error = "'Otsutstvie klyucha homework_name v otvete API'"
    /\ last_msg # ""

\* C12 as stated: the first request has from_date = now - RETRY_PERIOD, and the
\* request that follows an iteration which set timestamp = response['current_date']
\* has from_date equal to that current_date.
C12_FetchFromWatermark ==
    [][pc = "fetch" =>
        /\ (prev.path = "none" => from_date' = timestamp - RETRY_PERIOD)
        /\ (prev.path = "else" => from_date' = prev.response.current_date[1])]_vars

\* C13: whenever a request is about to be made, either none was made before or
\* exactly one sleep of RETRY_PERIOD seconds has run since the latest one; and no
\* iteration sleeps more than once.
C13_OneSleepBetweenFetches ==
    /\ pc = "fetch" => slept \in {-1, RETRY_PERIOD}
    /\ slept <= RETRY_PERIOD
    /\ pc \in {"check", "parse", "send", "advance", "except", "finally"} => slept = 0

\* the paths of an iteration: notified, duplicate suppressed, empty list, failed
\* status send, handled error
PathsSlept ==
    /\ pc = "fetch"
    /\ slept = RETRY_PERIOD

C13_Witness ==
    /\ PathsSlept
    /\ prev.path = "continue"
    /\ timestamp = 2000
    /\ last_msg # ""

\* a validated response whose homeworks list is empty
EmptyHomeworksResponse ==
    /\ response.type = "dict"
    /\ HasKey(response, "homeworks")
    /\ Homeworks(response).type = "list"
    /\ Homeworks(response).items = <<>>

\* C14: once check_response has run on a response with an empty homeworks list, the
\* iteration is at its sleep: bot.send_message and send_message were not called, no
\* exception was raised and no error text was built.
C14_EmptyHomeworksSilent ==
    (EmptyHomeworksResponse /\ pc # "check") =>
        /\ pc = "finally"
        /\ path = "continue"
        /\ sent = <<>>
        /\ notified = <<>>
        /\ raisedIn = ""
        /\ error = ""

C14_Witness ==
    /\ EmptyHomeworksResponse
    /\ pc = "finally"
    /\ path = "continue"
    /\ last_msg # ""
    /\ prev.path = "else"

\* C15: the except clause passes the error text to send_message exactly once:
\* the step from line 177 makes one call, its text is the prefix followed by
\* str(error), a text equal to last_msg is not sent again, and the step ends at the
\* sleep whatever bot.send_message does; an iteration that failed in
\* get_api_answer, check_response or parse_status ends with that one call.
C15_ErrorReported ==
    /\ [][pc = "except" =>
            /\ Len(notified') = Len(notified) + 1
            /\ CallText = "Sboy v rabote programmy: " \o error
            /\ (CallText = last_msg => sent' = sent)
            /\ (CallText # last_msg => Len(sent') = Len(sent) + 1)
            /\ pc' = "finally"]_vars
    /\ []((RaisedInCycle /\ pc = "finally") => (Len(notified) = 1 /\ Len(sent) <= 1))
    /\ [](RaisedInCycle => pc \in {"except", "finally"})

\* the same error as in the previous iteration: the report was not sent again
C15_Witness ==
    /\ pc = "finally"
    /\ raisedIn = "check_response"
    /\ prev.raisedIn = "check_response"
    /\ Len(notified) = 1
    /\ notified[1].known
    /\ sent = <<>>

\* the error the checks of validation give, taken in their order
ValidationOrder(r) ==
    IF r.type # "dict" THEN "TypeError"
    ELSE IF ~HasKey(r, "homeworks") \/ ~HasKey(r, "current_date") THEN "KeyError"
    ELSE IF Homeworks(r).type # "list" THEN "TypeError"
    ELSE ""

\* C16: check_response gives every response the error of the first check it
\* violates, in the order: not a dict (TypeError), homeworks or current_date
\* missing (KeyError), homeworks not a list (TypeError); it accepts a response that
\* violates none.
C16_ValidationOrder ==
    pc = "check" => check_response(response).exc = ValidationOrder(response)

\* C17: after start-up timestamp changes only in the step of line 174, which is
\* reached only when the iteration's fetch, validation and parsing raised nothing,
\* homeworks is non-empty and the send_message call returned; that step sets it to
\* the response's current_date; every other step leaves it unchanged.
C17_WatermarkFrame ==
    /\ [][pc # "start" =>
            IF pc = "advance" /\ HasKey(response, "current_date")
            THEN timestamp' = response.current_date[1] /\ pc' = "finally"
            ELSE timestamp' = timestamp]_vars
    /\ [](pc = "advance" =>
            /\ raisedIn = ""
            /\ check_response(response).exc = ""
            /\ Homeworks(response).items # <<>>
            /\ parse_status(FirstHomework).exc = ""
            /\ Len(notified) = 1
            /\ ~SendRaised)
    /\ []((pc = "finally" /\ path # "else" /\ prev.path # "none")
            => timestamp = prev.timestamp)

\* the watermark moved from 1000 to 2000 at the end of a clean iteration
C17_Witness ==
    /\ pc = "finally"
    /\ path = "else"
    /\ prev.path = "telegram"
    /\ prev.timestamp = 1000
    /\ timestamp = 2000
    /\ response.current_date = <<2000>>

====
